---------------------------- MODULE Spec2Model ----------------------------
(***************************************************************************)
(* Model of backend/app/api/exports/excel_utils.py: the streaming batch    *)
(* writer (write_excel_headers, write_data_to_excel) together with the     *)
(* collaborators it calls: the cursor (fetchmany), the worksheet (write,   *)
(* set_row), the cancellation store (is_operation_cancelled) and the       *)
(* logger.                                                                 *)
(*                                                                         *)
(* One action per step of the code between two points at which another     *)
(* actor can be observed: the pre-fetch check (l.173-175), the fetch       *)
(* (l.178-180, 209), the head of a row iteration (l.186-195), one cell     *)
(* write (l.197-203) and the end of a batch (l.205-206).                   *)
(***************************************************************************)
EXTENDS Integers, Sequences, FiniteSets, TLC

(***************************************************************************)
(* Bounds of the model.                                                    *)
(***************************************************************************)
MaxRows == 3                \* longest cursor explored
MaxBatch == 3               \* largest configured batch size explored
MaxScaledFrequency == 2     \* largest scaled-down check stride explored
NumCols == 3                \* columns of the result set: indices 0, 1, 2

(***************************************************************************)
(* Program constants.                                                      *)
(***************************************************************************)
SourceCheckFrequency == 1000   \* l.168  cancellation_check_frequency = 1000
HeaderRow == 0                 \* l.153  worksheet.write(0, ...)
HeaderRowHeight == 20          \* l.156  worksheet.set_row(0, 20)
\* Mutant: the data rows start in the header's row.
FirstDataRowIsHeaderRow == HeaderRow
FirstDataRow == 1              \* l.164  row_idx = 1
RowHeightStride == 10          \* l.194  if row_idx % 10 == 0
DataRowHeight == 15            \* l.195  worksheet.set_row(row_idx, 15)
DateColumn == 2                \* l.199  if col_idx == 2 and value

(***************************************************************************)
(* Cell values.  A value is a record of its Python type and a payload      *)
(* number: None, a string of n characters, the number n, or a date.        *)
(***************************************************************************)
NullValue == [kind |-> "null", n |-> 0]
EmptyText == [kind |-> "text", n |-> 0]
TextValue(n) == [kind |-> "text", n |-> n]
NumberValue(n) == [kind |-> "number", n |-> n]
DateValue(n) == [kind |-> "date", n |-> n]

\* Python truthiness of a value, as tested by "and value" on l.199:
\* None, the empty string and the number 0 are falsy.
Truthy(value) ==
    CASE value.kind = "null" -> FALSE
      [] value.kind = "text" -> value.n > 0
      [] value.kind = "number" -> value.n # 0
      [] OTHER -> TRUE

\* What the column at index 2 of a result set can hold; l.197-199 take any
\* value: NULL, a blank or filled string, the number 0 or another number,
\* or a date.
DateColumnValues ==
    {NullValue, EmptyText, TextValue(1), NumberValue(0), NumberValue(1),
     DateValue(1)}

\* The k-th row of a cursor whose date column holds d: the first column
\* carries the row's position in the result set, so that rows are distinct.
CursorRow(k, d) ==
    [c \in 1..NumCols |->
        IF c = 1 THEN NumberValue(k)
        ELSE IF c = DateColumn + 1 THEN d
        ELSE TextValue(1)]

\* The column names handed to write_excel_headers.
Columns == [c \in 1..NumCols |-> TextValue(c)]

\* A cursor long enough for the sheet row whose height is set (l.194).
LongCursor == RowHeightStride

OperationIds == {"op1", "op2"}
ThisOperation == "op1"

\* The strides explored: the source's value and scaled-down ones, which let
\* the in-batch check happen within MaxRows rows.
CheckFrequencies == (1..MaxScaledFrequency) \cup {SourceCheckFrequency}

VARIABLES
    pc,                          \* position of the writer's control flow
    cursor_rows,                 \* the result set behind the cursor
    cursor_pos,                  \* number of rows the cursor has delivered
    batch_size,                  \* settings.get_batch_size('export')
    cancellation_check_frequency,
    operation_id,
    cancelled_operations,        \* the process-wide cancellation store
    rows,                        \* the batch held by the writer
    row_pos,                     \* position of "for row in rows" (1-based)
    col_idx,                     \* position of "for col_idx, value in ..."
    row_idx,
    total_rows,
    rows_since_last_check,
    calls,                       \* calls made to the collaborators, in order
    log,                         \* lines written to export_logger
    result,                      \* what the writer handed to its caller
    other,                       \* a second export, while it is not running
    resources,                   \* the sink and the cursor held by the caller
    naming,                      \* a call of create_filename and its outcome
    cancel_marks                 \* Len(calls) when this export's cancellation
                                 \* was requested (kept where a claim needs it)

\* What the writer's own steps leave alone.
caller_vars == <<other, resources, naming, cancel_marks>>

vars == <<pc, cursor_rows, cursor_pos, batch_size,
          cancellation_check_frequency, operation_id, cancelled_operations,
          rows, row_pos, col_idx, row_idx, total_rows, rows_since_last_check,
          calls, log, result, other, resources, naming, cancel_marks>>

(***************************************************************************)
(* Records of the calls made to the collaborators.                         *)
(***************************************************************************)
GateCall(op, answer) ==
    [op |-> "is_operation_cancelled", a |-> 0, b |-> 0,
     value |-> NullValue, arg |-> IF answer THEN "True" ELSE "False"]
FetchCall(size, returned) ==
    [op |-> "fetchmany", a |-> size, b |-> returned,
     value |-> NullValue, arg |-> "ok"]
FetchRaised(size) ==
    [op |-> "fetchmany", a |-> size, b |-> 0,
     value |-> NullValue, arg |-> "raised"]
WriteCall(r, c, value, format) ==
    [op |-> "write", a |-> r, b |-> c, value |-> value, arg |-> format]
WriteRaised(r, c, value, format) ==
    [op |-> "write_raised", a |-> r, b |-> c, value |-> value, arg |-> format]
SetRowCall(r, height) ==
    [op |-> "set_row", a |-> r, b |-> height, value |-> NullValue, arg |-> ""]
SetRowRaised(r, height) ==
    [op |-> "set_row_raised", a |-> r, b |-> height, value |-> NullValue,
     arg |-> ""]

(***************************************************************************)
(* What the writer hands to its caller.                                    *)
(***************************************************************************)
NoResult == [kind |-> "none", exc |-> "", msg |-> "", value |-> 0]
Returned(n) == [kind |-> "return", exc |-> "", msg |-> "", value |-> n]
Raised(exc, msg) == [kind |-> "raise", exc |-> exc, msg |-> msg, value |-> 0]

\* l.175, l.190: raise Exception("Operation cancelled by user")
CancelledException == Raised("Exception", "Operation cancelled by user")

\* What the collaborators raise when they fail: the cursor's and the sink's
\* own error classes, which the writer lets through (no try around l.178,
\* l.200, l.202).
CursorFailure == Raised("CursorError", "fetchmany failed")
SinkFailure == Raised("SinkError", "write failed")

\* Python's "except cls": an exception is handled there when its class is
\* cls or derives from it; every error class derives from Exception.
IsInstance(exc, cls) == exc = cls \/ cls = "Exception"

\* l.174, l.189: export_logger.info(... at row {total_rows}/{total_count})
CancelLogLine(n) == [level |-> "info", at_row |-> n]

(***************************************************************************)
(* The collaborators.                                                      *)
(***************************************************************************)
\* core.operation_tracker.is_operation_cancelled: a read of the store.
is_operation_cancelled(op) == op \in cancelled_operations

\* cursor.fetchmany(size): the next size rows, fewer when fewer remain,
\* none when the cursor is exhausted.
Min(x, y) == IF x <= y THEN x ELSE y
fetchmany(size) ==
    SubSeq(cursor_rows, cursor_pos + 1,
           Min(cursor_pos + size, Len(cursor_rows)))

\* Mutant: the date style for the date column whatever the value.
CellFormatByColumnOnly(c, value) ==
    IF c = DateColumn THEN "date_format" ELSE "data_format"

\* The style of a data cell, l.199-202.
CellFormat(c, value) ==
    IF c = DateColumn /\ Truthy(value) THEN "date_format" ELSE "data_format"

TerminalPositions == {"Completed", "Cancelled", "Failed"}

\* setup_excel_workbook (l.95-112) returns the workbook it has opened, and
\* write_data_to_excel (l.158) is handed an open cursor: both are held when
\* the writer starts, and no statement of l.149-209 closes either.
ResourcesHeld == [sink_open |-> TRUE, cursor_open |-> TRUE]
NoOther == [pc |-> "Absent"]
NoNaming == [stage |-> "none"]

CallerInit ==
    /\ other = NoOther
    /\ resources = ResourcesHeld
    /\ naming = NoNaming
    /\ cancel_marks = {}

Init ==
    /\ pc = "Idle"
    /\ \/ /\ \E n \in 0..MaxRows :
               \E d \in DateColumnValues :
                  cursor_rows = [k \in 1..n |-> CursorRow(k, d)]
          /\ batch_size \in 1..MaxBatch
       \/ /\ cursor_rows = [k \in 1..LongCursor |->
                               CursorRow(k, DateValue(1))]
          /\ batch_size = MaxBatch
    /\ cursor_pos = 0
    /\ cancellation_check_frequency \in CheckFrequencies
    /\ operation_id = ThisOperation
    /\ cancelled_operations = {}
    /\ rows = <<>>
    /\ row_pos = 0
    /\ col_idx = 0
    /\ row_idx = 0
    /\ total_rows = 0
    /\ rows_since_last_check = 0
    /\ calls = <<>>
    /\ log = <<>>
    /\ result = NoResult
    /\ CallerInit

(***************************************************************************)
(* The caller of the two functions (StreamingExportWriter.run of the       *)
(* design, step 1): it writes the header once, then streams the data.      *)
(***************************************************************************)
CallerWritesHeaders == pc = "Idle"
CallerStartsData == pc = "HeaderWritten"

(***************************************************************************)
(* write_excel_headers, l.149-156: every column name in row 0 with the     *)
(* header style, then the height of row 0.                                 *)
(***************************************************************************)
HeaderCalls ==
    [c \in 1..NumCols |->
        WriteCall(HeaderRow, c - 1, Columns[c], "header_format")]
    \o <<SetRowCall(HeaderRow, HeaderRowHeight)>>

write_excel_headers ==
    /\ CallerWritesHeaders
    /\ calls' = calls \o HeaderCalls
    /\ pc' = "HeaderWritten"
    /\ UNCHANGED caller_vars
    /\ UNCHANGED <<cursor_rows, cursor_pos, batch_size,
                   cancellation_check_frequency, operation_id,
                   cancelled_operations, rows, row_pos, col_idx, row_idx,
                   total_rows, rows_since_last_check, log, result>>

\* l.153, l.156: worksheet.write or worksheet.set_row raises in the header;
\* nothing catches it.  The cells before the failing call are written.
HeaderRaised(k) ==
    IF k <= NumCols
      THEN WriteRaised(HeaderRow, k - 1, Columns[k], "header_format")
      ELSE SetRowRaised(HeaderRow, HeaderRowHeight)

HeaderFails ==
    /\ CallerWritesHeaders
    /\ \E k \in 1..(NumCols + 1) :
          calls' = calls \o SubSeq(HeaderCalls, 1, k - 1)
                         \o <<HeaderRaised(k)>>
    /\ result' = SinkFailure
    /\ pc' = "Failed"
    /\ UNCHANGED caller_vars
    /\ UNCHANGED <<cursor_rows, cursor_pos, batch_size,
                   cancellation_check_frequency, operation_id,
                   cancelled_operations, rows, row_pos, col_idx, row_idx,
                   total_rows, rows_since_last_check, log>>

(***************************************************************************)
(* write_data_to_excel, l.158-169: the locals before the loop.             *)
(***************************************************************************)
StartWriteData ==
    /\ CallerStartsData
    /\ row_idx' = FirstDataRow
    /\ total_rows' = 0
    /\ rows_since_last_check' = 0
    /\ pc' = "check"
    /\ UNCHANGED caller_vars
    /\ UNCHANGED <<cursor_rows, cursor_pos, batch_size,
                   cancellation_check_frequency, operation_id,
                   cancelled_operations, rows, row_pos, col_idx, calls, log,
                   result>>

\* Mutant: the store is queried before the first fetch only.
PreFetchCheckFirstBatchOnly ==
    /\ pc = "check"
    /\ LET answer == is_operation_cancelled(operation_id) IN
         IF total_rows > 0
           THEN /\ pc' = "fetch"
                /\ UNCHANGED <<calls, log, result>>
           ELSE /\ calls' = Append(calls, GateCall(operation_id, answer))
                /\ IF answer
                     THEN /\ log' = Append(log, CancelLogLine(total_rows))
                          /\ result' = CancelledException
                          /\ pc' = "Cancelled"
                     ELSE /\ pc' = "fetch"
                          /\ UNCHANGED <<log, result>>
    /\ UNCHANGED caller_vars
    /\ UNCHANGED <<cursor_rows, cursor_pos, batch_size,
                   cancellation_check_frequency, operation_id,
                   cancelled_operations, rows, row_pos, col_idx, row_idx,
                   total_rows, rows_since_last_check>>

\* Mutant: the check asks whether any operation was cancelled, not this one.
PreFetchCheckAnyOperation ==
    /\ pc = "check"
    /\ LET answer == cancelled_operations # {} IN
         /\ calls' = Append(calls, GateCall(operation_id, answer))
         /\ IF answer
              THEN /\ log' = Append(log, CancelLogLine(total_rows))
                   /\ result' = CancelledException
                   /\ pc' = "Cancelled"
              ELSE /\ pc' = "fetch"
                   /\ UNCHANGED <<log, result>>
    /\ UNCHANGED caller_vars
    /\ UNCHANGED <<cursor_rows, cursor_pos, batch_size,
                   cancellation_check_frequency, operation_id,
                   cancelled_operations, rows, row_pos, col_idx, row_idx,
                   total_rows, rows_since_last_check>>

(***************************************************************************)
(* l.173-175: the check before each fetch.                                 *)
(***************************************************************************)
PreFetchCheck ==
    /\ pc = "check"
    /\ LET answer == is_operation_cancelled(operation_id) IN
         /\ calls' = Append(calls, GateCall(operation_id, answer))
         /\ IF answer
              THEN /\ log' = Append(log, CancelLogLine(total_rows))
                   /\ result' = CancelledException
                   /\ pc' = "Cancelled"
              ELSE /\ pc' = "fetch"
                   /\ UNCHANGED <<log, result>>
    /\ UNCHANGED caller_vars
    /\ UNCHANGED <<cursor_rows, cursor_pos, batch_size,
                   cancellation_check_frequency, operation_id,
                   cancelled_operations, rows, row_pos, col_idx, row_idx,
                   total_rows, rows_since_last_check>>

\* Mutant: a batch shorter than batch_size is taken for the end of the
\* cursor and dropped.
FetchBatchStopsOnShortBatch ==
    /\ pc = "fetch"
    /\ LET batch == fetchmany(batch_size) IN
         /\ rows' = batch
         /\ cursor_pos' = cursor_pos + Len(batch)
         /\ calls' = Append(calls, FetchCall(batch_size, Len(batch)))
         /\ IF Len(batch) < batch_size
              THEN /\ result' = Returned(total_rows)
                   /\ pc' = "Completed"
                   /\ UNCHANGED row_pos
              ELSE /\ row_pos' = 1
                   /\ pc' = "row"
                   /\ UNCHANGED result
    /\ UNCHANGED caller_vars
    /\ UNCHANGED <<cursor_rows, batch_size, cancellation_check_frequency,
                   operation_id, cancelled_operations, col_idx, row_idx,
                   total_rows, rows_since_last_check, log>>

\* Mutant: the batches are accumulated instead of replaced.
FetchBatchRetainsRows ==
    /\ pc = "fetch"
    /\ LET batch == fetchmany(batch_size) IN
         /\ rows' = rows \o batch
         /\ cursor_pos' = cursor_pos + Len(batch)
         /\ calls' = Append(calls, FetchCall(batch_size, Len(batch)))
         /\ IF Len(batch) = 0
              THEN /\ result' = Returned(total_rows)
                   /\ pc' = "Completed"
                   /\ UNCHANGED row_pos
              ELSE /\ row_pos' = Len(rows) + 1
                   /\ pc' = "row"
                   /\ UNCHANGED result
    /\ UNCHANGED caller_vars
    /\ UNCHANGED <<cursor_rows, batch_size, cancellation_check_frequency,
                   operation_id, cancelled_operations, col_idx, row_idx,
                   total_rows, rows_since_last_check, log>>

(***************************************************************************)
(* l.178-180 and l.209: fetch a batch; an empty batch leaves the loop and  *)
(* the function returns total_rows.                                        *)
(***************************************************************************)
FetchBatch ==
    /\ pc = "fetch"
    /\ LET batch == fetchmany(batch_size) IN
         /\ rows' = batch
         /\ cursor_pos' = cursor_pos + Len(batch)
         /\ calls' = Append(calls, FetchCall(batch_size, Len(batch)))
         /\ IF Len(batch) = 0
              THEN /\ result' = Returned(total_rows)
                   /\ pc' = "Completed"
                   /\ UNCHANGED row_pos
              ELSE /\ row_pos' = 1
                   /\ pc' = "row"
                   /\ UNCHANGED result
    /\ UNCHANGED caller_vars
    /\ UNCHANGED <<cursor_rows, batch_size, cancellation_check_frequency,
                   operation_id, cancelled_operations, col_idx, row_idx,
                   total_rows, rows_since_last_check, log>>

\* Mutant: a failed fetch is tried again.
FetchFailsAndRetries ==
    /\ pc = "fetch"
    /\ Len(calls) < 2 * (MaxRows + 2) * (NumCols + 2)
    /\ calls' = Append(calls, FetchRaised(batch_size))
    /\ UNCHANGED caller_vars
    /\ UNCHANGED <<pc, cursor_rows, cursor_pos, batch_size,
                   cancellation_check_frequency, operation_id,
                   cancelled_operations, rows, row_pos, col_idx, row_idx,
                   total_rows, rows_since_last_check, log, result>>

\* l.178: cursor.fetchmany raises; nothing catches it.
FetchFails ==
    /\ pc = "fetch"
    /\ calls' = Append(calls, FetchRaised(batch_size))
    /\ result' = CursorFailure
    /\ pc' = "Failed"
    /\ UNCHANGED caller_vars
    /\ UNCHANGED <<cursor_rows, cursor_pos, batch_size,
                   cancellation_check_frequency, operation_id,
                   cancelled_operations, rows, row_pos, col_idx, row_idx,
                   total_rows, rows_since_last_check, log>>

(***************************************************************************)
(* l.183-195: the head of one iteration of "for row in rows": count the    *)
(* row, query the store when the count reaches the stride, set the row     *)
(* height on every 10th sheet row.                                         *)
(***************************************************************************)
HeightCalls(r) ==
    IF r % RowHeightStride = 0 THEN <<SetRowCall(r, DataRowHeight)>> ELSE <<>>

\* Mutant: on a positive answer inside a batch the writer waits for the
\* flag to be cleared instead of raising.
RowHeadBlocksWhenCancelled ==
    /\ pc = "row"
    /\ row_pos <= Len(rows)
    /\ LET counted == rows_since_last_check + 1
           due == counted >= cancellation_check_frequency
           answer == is_operation_cancelled(operation_id)
           gate == IF due THEN <<GateCall(operation_id, answer)>> ELSE <<>>
       IN
         /\ ~(due /\ answer)
         /\ rows_since_last_check' = IF due THEN 0 ELSE counted
         /\ calls' = calls \o gate \o HeightCalls(row_idx)
         /\ col_idx' = 0
         /\ pc' = "cell"
    /\ UNCHANGED caller_vars
    /\ UNCHANGED <<cursor_rows, cursor_pos, batch_size,
                   cancellation_check_frequency, operation_id,
                   cancelled_operations, rows, row_pos, row_idx, total_rows,
                   log, result>>

\* Mutant: the store is queried before a fetch only, never inside a batch.
RowHeadWithoutCheck ==
    /\ pc = "row"
    /\ row_pos <= Len(rows)
    /\ rows_since_last_check' = rows_since_last_check + 1
    /\ calls' = calls \o HeightCalls(row_idx)
    /\ col_idx' = 0
    /\ pc' = "cell"
    /\ UNCHANGED caller_vars
    /\ UNCHANGED <<cursor_rows, cursor_pos, batch_size,
                   cancellation_check_frequency, operation_id,
                   cancelled_operations, rows, row_pos, row_idx, total_rows,
                   log, result>>

RowHead ==
    /\ pc = "row"
    /\ row_pos <= Len(rows)
    /\ LET counted == rows_since_last_check + 1
           due == counted >= cancellation_check_frequency
           answer == is_operation_cancelled(operation_id)
           gate == IF due THEN <<GateCall(operation_id, answer)>> ELSE <<>>
       IN
         IF due /\ answer
           THEN /\ rows_since_last_check' = counted
                /\ calls' = calls \o gate
                /\ log' = Append(log, CancelLogLine(total_rows))
                /\ result' = CancelledException
                /\ pc' = "Cancelled"
                /\ UNCHANGED col_idx
           ELSE /\ rows_since_last_check' = IF due THEN 0 ELSE counted
                /\ calls' = calls \o gate \o HeightCalls(row_idx)
                /\ col_idx' = 0
                /\ pc' = "cell"
                /\ UNCHANGED <<log, result>>
    /\ UNCHANGED caller_vars
    /\ UNCHANGED <<cursor_rows, cursor_pos, batch_size,
                   cancellation_check_frequency, operation_id,
                   cancelled_operations, rows, row_pos, row_idx, total_rows>>

\* l.195: worksheet.set_row raises on a 10th sheet row, after the row was
\* counted and the check of l.187-191 passed; nothing catches it.
SetRowFails ==
    /\ pc = "row"
    /\ row_pos <= Len(rows)
    /\ row_idx % RowHeightStride = 0
    /\ LET counted == rows_since_last_check + 1
           due == counted >= cancellation_check_frequency
           answer == is_operation_cancelled(operation_id)
           gate == IF due THEN <<GateCall(operation_id, answer)>> ELSE <<>>
       IN
         /\ ~(due /\ answer)
         /\ rows_since_last_check' = IF due THEN 0 ELSE counted
         /\ calls' = calls \o gate
                          \o <<SetRowRaised(row_idx, DataRowHeight)>>
    /\ result' = SinkFailure
    /\ pc' = "Failed"
    /\ UNCHANGED caller_vars
    /\ UNCHANGED <<cursor_rows, cursor_pos, batch_size,
                   cancellation_check_frequency, operation_id,
                   cancelled_operations, rows, row_pos, col_idx, row_idx,
                   total_rows, log>>

\* Mutant: the loop over the batch never leaves its row.
WriteCellRepeatsRow ==
    /\ pc = "cell"
    /\ LET value == rows[row_pos][col_idx + 1] IN
         calls' = Append(calls, WriteCall(row_idx, col_idx, value,
                                          CellFormat(col_idx, value)))
    /\ IF col_idx + 1 < Len(rows[row_pos])
         THEN /\ col_idx' = col_idx + 1
              /\ UNCHANGED <<pc, row_idx, row_pos>>
         ELSE /\ row_idx' = row_idx + 1
              /\ pc' = "row"
              /\ UNCHANGED <<col_idx, row_pos>>
    /\ UNCHANGED caller_vars
    /\ UNCHANGED <<cursor_rows, cursor_pos, batch_size,
                   cancellation_check_frequency, operation_id,
                   cancelled_operations, rows, total_rows,
                   rows_since_last_check, log, result>>

\* Mutant: the sheet row stays where it is after a row is written.
WriteCellKeepsSheetRow ==
    /\ pc = "cell"
    /\ LET value == rows[row_pos][col_idx + 1] IN
         calls' = Append(calls, WriteCall(row_idx, col_idx, value,
                                          CellFormat(col_idx, value)))
    /\ IF col_idx + 1 < Len(rows[row_pos])
         THEN /\ col_idx' = col_idx + 1
              /\ UNCHANGED <<pc, row_pos>>
         ELSE /\ row_pos' = row_pos + 1
              /\ pc' = "row"
              /\ UNCHANGED col_idx
    /\ UNCHANGED caller_vars
    /\ UNCHANGED <<cursor_rows, cursor_pos, batch_size,
                   cancellation_check_frequency, operation_id,
                   cancelled_operations, rows, row_idx, total_rows,
                   rows_since_last_check, log, result>>

(***************************************************************************)
(* l.197-203: one cell of the row; after the last cell the row position    *)
(* advances.                                                               *)
(***************************************************************************)
WriteCell ==
    /\ pc = "cell"
    /\ LET value == rows[row_pos][col_idx + 1] IN
         calls' = Append(calls, WriteCall(row_idx, col_idx, value,
                                          CellFormat(col_idx, value)))
    /\ IF col_idx + 1 < Len(rows[row_pos])
         THEN /\ col_idx' = col_idx + 1
              /\ UNCHANGED <<pc, row_idx, row_pos>>
         ELSE /\ row_idx' = row_idx + 1
              /\ row_pos' = row_pos + 1
              /\ pc' = "row"
              /\ UNCHANGED col_idx
    /\ UNCHANGED caller_vars
    /\ UNCHANGED <<cursor_rows, cursor_pos, batch_size,
                   cancellation_check_frequency, operation_id,
                   cancelled_operations, rows, total_rows,
                   rows_since_last_check, log, result>>

\* l.200, l.202: worksheet.write raises; nothing catches it.
WriteFails ==
    /\ pc = "cell"
    /\ LET value == rows[row_pos][col_idx + 1] IN
         calls' = Append(calls, WriteRaised(row_idx, col_idx, value,
                                            CellFormat(col_idx, value)))
    /\ result' = SinkFailure
    /\ pc' = "Failed"
    /\ UNCHANGED caller_vars
    /\ UNCHANGED <<cursor_rows, cursor_pos, batch_size,
                   cancellation_check_frequency, operation_id,
                   cancelled_operations, rows, row_pos, col_idx, row_idx,
                   total_rows, rows_since_last_check, log>>

\* Mutant: the count of rows since the last check restarts with each batch.
EndBatchResetsCounter ==
    /\ pc = "row"
    /\ row_pos > Len(rows)
    /\ total_rows' = total_rows + Len(rows)
    /\ rows_since_last_check' = 0
    /\ pc' = "check"
    /\ UNCHANGED caller_vars
    /\ UNCHANGED <<cursor_rows, cursor_pos, batch_size,
                   cancellation_check_frequency, operation_id,
                   cancelled_operations, rows, row_pos, col_idx, row_idx,
                   calls, log, result>>

\* Mutant: the configured batch size is added instead of the batch length.
EndBatchAddsBatchSize ==
    /\ pc = "row"
    /\ row_pos > Len(rows)
    /\ total_rows' = total_rows + batch_size
    /\ pc' = "check"
    /\ UNCHANGED caller_vars
    /\ UNCHANGED <<cursor_rows, cursor_pos, batch_size,
                   cancellation_check_frequency, operation_id,
                   cancelled_operations, rows, row_pos, col_idx, row_idx,
                   rows_since_last_check, calls, log, result>>

(***************************************************************************)
(* l.205-206: the batch is done; its length is added to total_rows.        *)
(***************************************************************************)
EndBatch ==
    /\ pc = "row"
    /\ row_pos > Len(rows)
    /\ total_rows' = total_rows + Len(rows)
    /\ pc' = "check"
    /\ UNCHANGED caller_vars
    /\ UNCHANGED <<cursor_rows, cursor_pos, batch_size,
                   cancellation_check_frequency, operation_id,
                   cancelled_operations, rows, row_pos, col_idx, row_idx,
                   rows_since_last_check, calls, log, result>>

(***************************************************************************)
(* The concurrent actor: it requests the cancellation of an operation.     *)
(***************************************************************************)
RequestCancel(op) ==
    /\ op \notin cancelled_operations
    /\ cancelled_operations' = cancelled_operations \cup {op}
    /\ UNCHANGED caller_vars
    /\ UNCHANGED <<pc, cursor_rows, cursor_pos, batch_size,
                   cancellation_check_frequency, operation_id, rows, row_pos,
                   col_idx, row_idx, total_rows, rows_since_last_check,
                   calls, log, result>>

Writer ==
    \/ write_excel_headers
    \/ HeaderFails
    \/ StartWriteData
    \/ PreFetchCheck
    \/ FetchBatch
    \/ FetchFails
    \/ RowHead
    \/ SetRowFails
    \/ WriteCell
    \/ WriteFails
    \/ EndBatch

Next ==
    \/ Writer
    \/ \E op \in OperationIds : RequestCancel(op)

Spec == Init /\ [][Next]_vars

TypeOK ==
    /\ pc \in {"Idle", "HeaderWritten", "check", "fetch", "row", "cell"}
                \cup TerminalPositions
    /\ cursor_pos \in 0..Len(cursor_rows)
    /\ cancelled_operations \subseteq OperationIds
    /\ row_idx \in 0..(Len(cursor_rows) + 1)
    /\ total_rows \in 0..Len(cursor_rows)

(***************************************************************************)
(* What the calls left in the sheet, and what the writer reported.         *)
(***************************************************************************)
\* Positions in calls of the cell writes that succeeded.
WriteIndices == {i \in 1..Len(calls) : calls[i].op = "write"}
HeaderWriteIndices == {i \in WriteIndices : calls[i].arg = "header_format"}
DataWriteIndices == WriteIndices \ HeaderWriteIndices

\* The sheet rows every cell of which a data write has filled.
CellWritten(r, c) ==
    \E i \in DataWriteIndices : calls[i].a = r /\ calls[i].b = c
CompleteDataRows ==
    {r \in 0..(Len(cursor_rows) + 1) :
        \A c \in 0..(NumCols - 1) : CellWritten(r, c)}
DataRowsWritten == Cardinality(CompleteDataRows)

\* The row count of the last cancellation line of the log.
ReportedProgress == log[Len(log)].at_row

\* The states of the writer named by the design.
WriterState ==
    CASE pc = "Idle" -> "Idle"
      [] pc = "HeaderWritten" -> "HeaderWritten"
      [] pc \in {"check", "fetch", "row", "cell"} -> "Streaming"
      [] OTHER -> pc

FetchIndices == {i \in 1..Len(calls) : calls[i].op = "fetchmany"}
GateIndices == {i \in 1..Len(calls) : calls[i].op = "is_operation_cancelled"}

(***************************************************************************)
(* C1.  When the writer ends by cancellation, the row count it reports     *)
(* (total_rows in the log line) equals the number of data rows written to  *)
(* the sheet.  The code adds a batch to total_rows only at the end of the  *)
(* batch (l.206), so the in-batch check reports a stale count.             *)
(***************************************************************************)
C1_CancelledProgressIsRowsWritten ==
    pc = "Cancelled" => ReportedProgress = DataRowsWritten

(***************************************************************************)
(* C2.  The example of the design, scaled by the stride k: 25k rows in     *)
(* batches of 5k, the flag set right after the 12k-th row was written.     *)
(***************************************************************************)
ExampleRows(k) == 25 * k
ExampleBatch(k) == 5 * k
ExampleCancelAfter(k) == 12 * k

InitC2 ==
    /\ pc = "Idle"
    /\ cancellation_check_frequency \in 1..MaxScaledFrequency
    /\ cursor_rows = [k \in 1..ExampleRows(cancellation_check_frequency) |->
                         CursorRow(k, DateValue(1))]
    /\ batch_size = ExampleBatch(cancellation_check_frequency)
    /\ cursor_pos = 0
    /\ operation_id = ThisOperation
    /\ cancelled_operations = {}
    /\ rows = <<>>
    /\ row_pos = 0
    /\ col_idx = 0
    /\ row_idx = 0
    /\ total_rows = 0
    /\ rows_since_last_check = 0
    /\ calls = <<>>
    /\ log = <<>>
    /\ result = NoResult
    /\ CallerInit

\* The 12k-th data row has just been written and the flag is not yet set.
CancelPointC2 ==
    /\ pc = "row"
    /\ row_idx - FirstDataRow = ExampleCancelAfter(cancellation_check_frequency)
    /\ operation_id \notin cancelled_operations

NextC2 ==
    \/ CancelPointC2 /\ RequestCancel(ThisOperation)
    \/ ~CancelPointC2 /\ write_excel_headers
    \/ ~CancelPointC2 /\ StartWriteData
    \/ ~CancelPointC2 /\ PreFetchCheck
    \/ ~CancelPointC2 /\ FetchBatch
    \/ ~CancelPointC2 /\ RowHead
    \/ ~CancelPointC2 /\ WriteCell
    \/ ~CancelPointC2 /\ EndBatch

SpecC2 == InitC2 /\ [][NextC2]_vars

\* C2: the writer ends cancelled, reporting a progress within
\* [12k, 13k - 1].
C2_ExampleProgressInRange ==
    pc \in TerminalPositions =>
        /\ pc = "Cancelled"
        /\ result = CancelledException
        /\ ReportedProgress \in
              ExampleCancelAfter(cancellation_check_frequency) ..
              (ExampleCancelAfter(cancellation_check_frequency)
                  + cancellation_check_frequency - 1)

(***************************************************************************)
(* C3.  The header is written exactly once, in row 0, before any data      *)
(* cell; data cells go to rows >= 1 only; the writer's states follow       *)
(* Idle -> HeaderWritten -> Streaming -> {Completed, Cancelled, Failed}    *)
(* and a terminal state is never left.                                     *)
(***************************************************************************)
HeaderWritesOfColumn(c) == {i \in HeaderWriteIndices : calls[i].b = c}

C3_HeaderAndRows ==
    /\ pc = "Idle" => WriteIndices = {}
    /\ pc # "Idle" =>
          \A c \in 0..(NumCols - 1) : Cardinality(HeaderWritesOfColumn(c)) = 1
    /\ \A i \in HeaderWriteIndices : calls[i].a = 0
    /\ \A i \in DataWriteIndices :
          /\ calls[i].a >= 1
          /\ \A h \in HeaderWriteIndices : h < i
    /\ \A i \in 1..Len(calls) :
          (calls[i].op = "write_raised" /\ calls[i].arg # "header_format")
              => calls[i].a >= 1

DesignTransitions ==
    {<<"Idle", "HeaderWritten">>, <<"HeaderWritten", "Streaming">>,
     <<"Streaming", "Streaming">>, <<"Streaming", "Completed">>,
     <<"Streaming", "Cancelled">>, <<"Streaming", "Failed">>}

C3_Step ==
    /\ WriterState' # WriterState =>
          <<WriterState, WriterState'>> \in DesignTransitions
    /\ pc \in TerminalPositions =>
          UNCHANGED <<pc, calls, result, log, cursor_pos, rows, row_idx,
                      total_rows>>

\* C3: in every state the header and the data rows are placed as above,
\* and every step follows the design's transitions.
C3_HeaderOnceBeforeData == []C3_HeaderAndRows /\ [][C3_Step]_vars

\* The calls of the header in which the sink raised.
HeaderRaisedIndices ==
    {i \in 1..Len(calls) :
        \E k \in 1..(NumCols + 1) : calls[i] = HeaderRaised(k)}

C3_HeaderAndRowsUnlessHeaderFails ==
    LET header == HeaderWriteIndices
        data == DataWriteIndices
        raised == HeaderRaisedIndices
        ofColumn == [c \in 0..(NumCols - 1) |->
                        {i \in header : calls[i].b = c}]
    IN  /\ pc = "Idle" => WriteIndices = {}
        /\ \A c \in 0..(NumCols - 1) : Cardinality(ofColumn[c]) <= 1
        /\ (pc # "Idle" /\ raised = {}) =>
              \A c \in 0..(NumCols - 1) : Cardinality(ofColumn[c]) = 1
        /\ raised # {} =>
              /\ pc = "Failed"
              /\ raised = {Len(calls)}
              /\ data = {}
              /\ FetchIndices = {}
              /\ \A i \in header : calls[i].b = i - 1
        /\ \A i \in header : calls[i].a = 0
        /\ data # {} =>
              /\ \A c \in 0..(NumCols - 1) : ofColumn[c] # {}
              /\ \A h \in header : \A i \in data : h < i
        /\ \A i \in data : calls[i].a >= 1
        /\ \A i \in 1..Len(calls) :
              (calls[i].op = "write_raised" /\ calls[i].arg # "header_format")
                  => calls[i].a >= 1

C3_StepOrHeaderFailure ==
    /\ WriterState' # WriterState =>
          <<WriterState, WriterState'>>
              \in DesignTransitions \cup {<<"Idle", "Failed">>}
    /\ pc \in TerminalPositions =>
          UNCHANGED <<pc, calls, result, log, cursor_pos, rows, row_idx,
                      total_rows>>

\* C3, amended: the cells of the header are written at most once each, in
\* row 0, and all of them before any data cell; data cells go to rows >= 1
\* only; the writer's states follow Idle -> HeaderWritten -> Streaming ->
\* {Completed, Cancelled, Failed}, or Idle -> Failed when the sink fails
\* while the header is written, which leaves the cells before the failing
\* call and no data; a terminal state is never left.
C3_HeaderBeforeDataUnlessHeaderFails ==
    []C3_HeaderAndRowsUnlessHeaderFails /\ [][C3_StepOrHeaderFailure]_vars

\* The sink raised on the second header cell: one header cell is in the
\* sheet and the writer is in Failed without having been in HeaderWritten.
C3_Witness ==
    /\ pc = "Failed"
    /\ calls = <<HeaderCalls[1], HeaderRaised(2)>>
    /\ result = SinkFailure

(***************************************************************************)
(* C4.  The data rows written never exceed the rows the cursor delivered,  *)
(* which never exceed the rows of the result set.                          *)
(***************************************************************************)
StartedDataRows ==
    {r \in 0..(Len(cursor_rows) + 1) :
        \E c \in 0..(NumCols - 1) : CellWritten(r, c)}

\* C4: rows written <= rows delivered <= rows of the result set.
C4_WrittenAtMostDelivered ==
    /\ DataRowsWritten <= cursor_pos
    /\ Cardinality(StartedDataRows) <= cursor_pos
    /\ cursor_pos <= Len(cursor_rows)

C4_Witness ==
    /\ pc = "Failed"
    /\ DataRowsWritten >= 1
    /\ DataRowsWritten < cursor_pos
    /\ cursor_pos < Len(cursor_rows)

(***************************************************************************)
(* C5.  On a normal return the value returned is the number of data rows   *)
(* written and the number of rows of the result set.                       *)
(***************************************************************************)
C5_ReturnIsRowCount ==
    pc = "Completed" =>
        /\ result = Returned(Len(cursor_rows))
        /\ DataRowsWritten = Len(cursor_rows)
        /\ CompleteDataRows = 1..Len(cursor_rows)

C5_Witness ==
    /\ pc = "Completed"
    /\ Len(cursor_rows) > batch_size
    /\ Len(cursor_rows) % batch_size # 0
    /\ result.value = Len(cursor_rows)

(***************************************************************************)
(* C6.  Every fetch comes right after a query of the store that answered   *)
(* False; a query that answered True is the writer's last call: it ends    *)
(* cancelled without a fetch and without a further cell.                   *)
(***************************************************************************)
C6_FetchFollowsNegativeCheck ==
    /\ \A i \in FetchIndices :
          /\ i > 1
          /\ calls[i - 1] = GateCall(operation_id, FALSE)
    /\ \A i \in GateIndices :
          calls[i].arg = "True" =>
              /\ i = Len(calls)
              /\ pc = "Cancelled"
              /\ result = CancelledException

\* Cancelled at the pre-fetch check that follows a written batch.
C6_Witness ==
    /\ pc = "Cancelled"
    /\ Len(rows) > 0
    /\ row_pos > Len(rows)
    /\ calls[Len(calls)] = GateCall(operation_id, TRUE)
    /\ cursor_pos < Len(cursor_rows)

(***************************************************************************)
(* C7.  Cancellation, a cursor failure and a sink failure are told apart   *)
(* by the outcome itself: the handler that takes the cancelled outcome     *)
(* takes no failure, and no failure is an instance of the class the        *)
(* cancellation is raised as.  The code raises the bare Exception for a    *)
(* cancellation (l.175, l.190), the class every failure derives from.      *)
(***************************************************************************)
C7_OutcomesDistinguishable ==
    /\ pc = "Cancelled" =>
          /\ ~IsInstance(CursorFailure.exc, result.exc)
          /\ ~IsInstance(SinkFailure.exc, result.exc)
    /\ pc = "Failed" => ~IsInstance(result.exc, CancelledException.exc)

(***************************************************************************)
(* C8.  The writer returns a row count only after a fetch that returned    *)
(* the empty batch; once a check answered True or a call raised, nothing   *)
(* is returned.                                                            *)
(***************************************************************************)
RaisedIndices ==
    {i \in 1..Len(calls) :
        \/ calls[i].op \in {"write_raised", "set_row_raised"}
        \/ calls[i] = FetchRaised(batch_size)}
ObservedCancel == \E i \in GateIndices : calls[i].arg = "True"

\* C8: a return happens only in Completed, right after the empty batch.
C8_CompleteOnlyAfterEmptyBatch ==
    /\ result.kind = "return" <=> pc = "Completed"
    /\ pc = "Completed" =>
          /\ calls[Len(calls)] = FetchCall(batch_size, 0)
          /\ cursor_pos = Len(cursor_rows)
    /\ (ObservedCancel \/ RaisedIndices # {}) =>
          /\ pc \in {"Cancelled", "Failed"}
          /\ result.kind = "raise"

C8_Witness ==
    /\ pc = "Completed"
    /\ Cardinality(FetchIndices) >= 3
    /\ calls[Len(calls)] = FetchCall(batch_size, 0)

(***************************************************************************)
(* The exports that exercise the choice of style (l.197-202): each row     *)
(* either holds a date in every column, or holds any one of the values a   *)
(* column can hold in the column at index 2.                               *)
(***************************************************************************)
DatesInEveryColumn(k) == [c \in 1..NumCols |-> DateValue(k)]

InitC9 ==
    /\ pc = "Idle"
    /\ \/ /\ \E n \in 0..MaxRows :
               \E dates \in [1..n -> DateColumnValues], all \in SUBSET (1..n) :
                  cursor_rows =
                      [k \in 1..n |-> IF k \in all
                                         THEN DatesInEveryColumn(k)
                                         ELSE CursorRow(k, dates[k])]
          /\ batch_size \in 1..MaxBatch
       \/ /\ cursor_rows = [k \in 1..LongCursor |->
                               CursorRow(k, DateValue(1))]
          /\ batch_size = MaxBatch
    /\ cursor_pos = 0
    /\ cancellation_check_frequency = SourceCheckFrequency
    /\ operation_id = ThisOperation
    /\ cancelled_operations = {}
    /\ rows = <<>>
    /\ row_pos = 0
    /\ col_idx = 0
    /\ row_idx = 0
    /\ total_rows = 0
    /\ rows_since_last_check = 0
    /\ calls = <<>>
    /\ log = <<>>
    /\ result = NoResult
    /\ CallerInit

SpecC9 == InitC9 /\ [][Writer]_vars

(***************************************************************************)
(* C9.  A data cell gets the date style exactly when it is in the date     *)
(* column and its value is not empty; every other data cell gets the       *)
(* plain data style.  The test on l.199 is Python truthiness, so the       *)
(* number 0 in the date column, which is not empty, gets the plain style.  *)
(***************************************************************************)
NonEmpty(value) == value # NullValue /\ value # EmptyText

\* C9: date style <=> date column (index 2) and a non-empty value.
C9_DateStyleOnlyForDates ==
    \A i \in 1..Len(calls) :
        (calls[i].op \in {"write", "write_raised"}
            /\ calls[i].arg # "header_format") =>
            /\ calls[i].arg \in {"date_format", "data_format"}
            /\ calls[i].arg = "date_format" <=>
                  (calls[i].b = 2 /\ NonEmpty(calls[i].value))

\* The values Python takes for false: None, "" and the number 0.
FalsyValues == {NullValue, EmptyText, NumberValue(0)}

\* C9 (amended): date style <=> date column (index 2) and a value that is
\* none of None, "" and 0; every other data cell, whatever its value, gets
\* the plain data style, so no other column ever gets the date style.
C9_DateStyleIffTruthyInDateColumn ==
    \A i \in 1..Len(calls) :
        (calls[i].op \in {"write", "write_raised"}
            /\ calls[i].arg # "header_format") =>
            /\ calls[i].arg \in {"date_format", "data_format"}
            /\ calls[i].arg = "date_format" <=>
                  (calls[i].b = 2 /\ calls[i].value \notin FalsyValues)
            /\ calls[i].b # 2 => calls[i].arg = "data_format"

\* One export wrote the date column with a date (date style), with the
\* number 0, "" and None (plain style), and a date in another column
\* (plain style).
C9_Witness ==
    /\ \E i \in DataWriteIndices :
          /\ calls[i].b = 2 /\ calls[i].arg = "date_format"
          /\ calls[i].value.kind = "date"
    /\ \E i \in DataWriteIndices :
          /\ calls[i].b = 2 /\ calls[i].arg = "data_format"
          /\ calls[i].value = NumberValue(0)
    /\ \E i \in DataWriteIndices :
          /\ calls[i].b = 2 /\ calls[i].arg = "data_format"
          /\ calls[i].value \in {EmptyText, NullValue}
    /\ \E i \in DataWriteIndices :
          /\ calls[i].b # 2 /\ calls[i].arg = "data_format"
          /\ calls[i].value.kind = "date"

(***************************************************************************)
(* C10.  The writer holds at most batch_size rows: a fetch asks for        *)
(* batch_size rows and the batch it returns replaces the one held.         *)
(***************************************************************************)
C10_HeldRowsAtMostBatch ==
    /\ Len(rows) <= batch_size
    /\ rows = SubSeq(cursor_rows, cursor_pos - Len(rows) + 1, cursor_pos)
    /\ \A i \in FetchIndices :
          calls[i].a = batch_size /\ calls[i].b <= batch_size

C10_Witness ==
    /\ pc = "cell"
    /\ cursor_pos > batch_size
    /\ Len(rows) = batch_size
    /\ batch_size < Len(cursor_rows)

(***************************************************************************)
(* Two exports at once.  Each has its own cursor, sink, locals and         *)
(* operation id; they share the cancellation store.  One export runs at a  *)
(* time and the scheduler may switch to the other between any two steps:   *)
(* other holds the export that is not running.                             *)
(***************************************************************************)
RunningContext ==
    [pc |-> pc, cursor_rows |-> cursor_rows, cursor_pos |-> cursor_pos,
     batch_size |-> batch_size,
     cancellation_check_frequency |-> cancellation_check_frequency,
     operation_id |-> operation_id, rows |-> rows, row_pos |-> row_pos,
     col_idx |-> col_idx, row_idx |-> row_idx, total_rows |-> total_rows,
     rows_since_last_check |-> rows_since_last_check, calls |-> calls,
     log |-> log, result |-> result]

\* An export that has not started: n rows whose date column holds d.
FreshContext(op, n, d, size, frequency) ==
    [pc |-> "Idle", cursor_rows |-> [k \in 1..n |-> CursorRow(k, d)],
     cursor_pos |-> 0, batch_size |-> size,
     cancellation_check_frequency |-> frequency, operation_id |-> op,
     rows |-> <<>>, row_pos |-> 0, col_idx |-> 0, row_idx |-> 0,
     total_rows |-> 0, rows_since_last_check |-> 0, calls |-> <<>>,
     log |-> <<>>, result |-> NoResult]

Resume(w) ==
    /\ pc = w.pc
    /\ cursor_rows = w.cursor_rows
    /\ cursor_pos = w.cursor_pos
    /\ batch_size = w.batch_size
    /\ cancellation_check_frequency = w.cancellation_check_frequency
    /\ operation_id = w.operation_id
    /\ rows = w.rows
    /\ row_pos = w.row_pos
    /\ col_idx = w.col_idx
    /\ row_idx = w.row_idx
    /\ total_rows = w.total_rows
    /\ rows_since_last_check = w.rows_since_last_check
    /\ calls = w.calls
    /\ log = w.log
    /\ result = w.result

\* The scheduler suspends the running export and resumes the other.
Switch ==
    /\ other.pc # NoOther.pc
    /\ other' = RunningContext
    /\ pc' = other.pc
    /\ cursor_rows' = other.cursor_rows
    /\ cursor_pos' = other.cursor_pos
    /\ batch_size' = other.batch_size
    /\ cancellation_check_frequency' = other.cancellation_check_frequency
    /\ operation_id' = other.operation_id
    /\ rows' = other.rows
    /\ row_pos' = other.row_pos
    /\ col_idx' = other.col_idx
    /\ row_idx' = other.row_idx
    /\ total_rows' = other.total_rows
    /\ rows_since_last_check' = other.rows_since_last_check
    /\ calls' = other.calls
    /\ log' = other.log
    /\ result' = other.result
    /\ UNCHANGED <<cancelled_operations, resources, naming, cancel_marks>>

\* Both exports run the same code under the same settings.
InitC11 ==
    /\ \E size \in 1..2, frequency \in 1..2, n1 \in 1..2, n2 \in 1..2 :
          /\ Resume(FreshContext("op1", n1, DateValue(1), size, frequency))
          /\ other = FreshContext("op2", n2, NullValue, size, frequency)
    /\ cancelled_operations = {}
    /\ resources = ResourcesHeld
    /\ naming = NoNaming
    /\ cancel_marks = {}

NextC11 ==
    \/ write_excel_headers
    \/ StartWriteData
    \/ PreFetchCheck
    \/ FetchBatch
    \/ RowHead
    \/ WriteCell
    \/ EndBatch
    \/ Switch
    \/ \E op \in OperationIds : RequestCancel(op)

SpecC11 == InitC11 /\ [][NextC11]_vars

\* The sheet holds the rows of the export's own cursor, row k in sheet row k.
SheetIsOwnCursor ==
    /\ CompleteDataRows = 1..Len(cursor_rows)
    /\ \A i \in DataWriteIndices :
          /\ calls[i].a \in 1..Len(cursor_rows)
          /\ calls[i].value = cursor_rows[calls[i].a][calls[i].b + 1]

(***************************************************************************)
(* C11.  With two exports interleaved in every way, an export whose own    *)
(* operation was not cancelled never ends cancelled, whatever happened to  *)
(* the other operation, and it returns and writes what it does alone: its  *)
(* row count and the rows of its own cursor.                               *)
(***************************************************************************)
C11_OtherCancelDoesNotInterfere ==
    /\ operation_id \notin cancelled_operations =>
          /\ pc # "Cancelled"
          /\ ~ObservedCancel
    /\ pc = "Completed" =>
          /\ result = Returned(Len(cursor_rows))
          /\ SheetIsOwnCursor
    /\ other.operation_id # operation_id

C11_Witness ==
    /\ pc = "Completed"
    /\ Len(cursor_rows) = 2
    /\ operation_id \notin cancelled_operations
    /\ other.pc = "Cancelled"
    /\ Len(other.calls) > Len(HeaderCalls) + 2

\* The exports whose date column holds a date in every row.
InitPlain ==
    /\ pc = "Idle"
    /\ \/ /\ \E n \in 0..MaxRows :
               cursor_rows = [k \in 1..n |-> CursorRow(k, DateValue(1))]
          /\ batch_size \in 1..MaxBatch
       \/ /\ cursor_rows = [k \in 1..LongCursor |->
                               CursorRow(k, DateValue(1))]
          /\ batch_size = MaxBatch
    /\ cursor_pos = 0
    /\ cancellation_check_frequency \in CheckFrequencies
    /\ operation_id = ThisOperation
    /\ cancelled_operations = {}
    /\ rows = <<>>
    /\ row_pos = 0
    /\ col_idx = 0
    /\ row_idx = 0
    /\ total_rows = 0
    /\ rows_since_last_check = 0
    /\ calls = <<>>
    /\ log = <<>>
    /\ result = NoResult
    /\ CallerInit

(***************************************************************************)
(* C12.  On every exit path (return, cancellation at either check, cursor  *)
(* failure, sink failure) the sink is closed and the cursor released       *)
(* before control is back with the caller: no terminal state has the sink  *)
(* or the cursor still open.  The functions of l.95-209 never close the    *)
(* workbook or the cursor, so every terminal state violates this.          *)
(***************************************************************************)
C12_ReleasedOnEveryExit ==
    pc \in TerminalPositions =>
        /\ ~resources.sink_open
        /\ ~resources.cursor_open

(***************************************************************************)
(* create_filename, l.17-93.  A Python string is the sequence of its       *)
(* characters; an optional parameter is None or a string.                  *)
(***************************************************************************)
None == [none |-> TRUE, s |-> <<>>]
Str(chars) == [none |-> FALSE, s |-> chars]

\* "if x" for an optional string: None and "" are falsy.
TruthyStr(x) == ~x.none /\ x.s # <<>>

\* s[-2:] and s[2:4] (l.31-34), and s[:8] (l.87).
LastTwo(s) == IF Len(s) <= 2 THEN s ELSE SubSeq(s, Len(s) - 1, Len(s))
ThirdAndFourth(s) == SubSeq(s, 3, Min(4, Len(s)))
FirstEight(s) == SubSeq(s, 1, Min(8, Len(s)))

\* l.24-28
month_names ==
    [m \in {<<"0", "1">>, <<"0", "2">>, <<"0", "3">>, <<"0", "4">>,
            <<"0", "5">>, <<"0", "6">>, <<"0", "7">>, <<"0", "8">>,
            <<"0", "9">>, <<"1", "0">>, <<"1", "1">>, <<"1", "2">>} |->
        CASE m = <<"0", "1">> -> <<"J", "A", "N">>
          [] m = <<"0", "2">> -> <<"F", "E", "B">>
          [] m = <<"0", "3">> -> <<"M", "A", "R">>
          [] m = <<"0", "4">> -> <<"A", "P", "R">>
          [] m = <<"0", "5">> -> <<"M", "A", "Y">>
          [] m = <<"0", "6">> -> <<"J", "U", "N">>
          [] m = <<"0", "7">> -> <<"J", "U", "L">>
          [] m = <<"0", "8">> -> <<"A", "U", "G">>
          [] m = <<"0", "9">> -> <<"S", "E", "P">>
          [] m = <<"1", "0">> -> <<"O", "C", "T">>
          [] m = <<"1", "1">> -> <<"N", "O", "V">>
          [] OTHER -> <<"D", "E", "C">>]

\* month_names.get(m, "")
MonthName(m) == IF m \in DOMAIN month_names THEN month_names[m] ELSE <<>>

\* l.31-38: the MON+YY rendering of one end of the range.
MonYY(month_str) == MonthName(LastTwo(month_str)) \o ThirdAndFourth(month_str)

\* Mutant: a single label only when the two parameters are the same string.
MonthYearComparesParameters(from_month_str, to_month_str) ==
    IF from_month_str = to_month_str
      THEN MonYY(from_month_str)
      ELSE MonYY(from_month_str) \o <<"-">> \o MonYY(to_month_str)

\* l.41-44
MonthYear(from_month_str, to_month_str) ==
    IF MonYY(from_month_str) = MonYY(to_month_str)
      THEN MonYY(from_month_str)
      ELSE MonYY(from_month_str) \o <<"-">> \o MonYY(to_month_str)

\* The characters str.strip() removes, those for which str.isspace() holds:
\* U+0009-000D, U+001C-0020, U+0085, U+00A0, and the spaces above U+00FF.
\* A character is the string of that one character; a character above
\* U+00FF, which a TLA+ string cannot hold, is the string of its name.
Whitespace ==
    {" ", "\t", "\n", "\r", "\f", "", "", "", "", "",
     "", " ",
     "U+1680", "U+2000", "U+2001", "U+2002", "U+2003", "U+2004", "U+2005",
     "U+2006", "U+2007", "U+2008", "U+2009", "U+200A", "U+2028", "U+2029",
     "U+202F", "U+205F", "U+3000"}

\* str.strip(), str.replace(" ", to) and str.split(",")[0]
RECURSIVE LStrip(_)
LStrip(s) ==
    IF s # <<>> /\ Head(s) \in Whitespace THEN LStrip(Tail(s)) ELSE s
RECURSIVE RStrip(_)
RStrip(s) ==
    IF s # <<>> /\ s[Len(s)] \in Whitespace
      THEN RStrip(SubSeq(s, 1, Len(s) - 1)) ELSE s
Strip(s) == RStrip(LStrip(s))
RemoveSpaces(s) == SelectSeq(s, LAMBDA ch : ch # " ")
SpacesToUnderscores(s) == [i \in 1..Len(s) |-> IF s[i] = " " THEN "_" ELSE s[i]]
RECURSIVE BeforeFirstComma(_)
BeforeFirstComma(s) ==
    IF s = <<>> \/ Head(s) = "," THEN <<>>
    ELSE <<Head(s)>> \o BeforeFirstComma(Tail(s))

\* Mutant: only None and "" count as not provided.
ProvidedUnlessEmpty(x) == TruthyStr(x)

\* "if params.x and params.x != '%'" (l.50, 55, 59, 63, 67, 71, 75)
Provided(x) == TruthyStr(x) /\ x.s # <<"%">>

\* l.47-76: the parameter part, before the leading underscore is removed.
ParameterPart(params) ==
    (IF Provided(params.hs)
       THEN BeforeFirstComma(RemoveSpaces(Strip(params.hs.s))) ELSE <<>>)
    \o (IF Provided(params.prod)
          THEN <<"_">> \o SpacesToUnderscores(params.prod.s) ELSE <<>>)
    \o (IF Provided(params.iec) THEN <<"_">> \o params.iec.s ELSE <<>>)
    \o (IF Provided(params.expCmp)
          THEN <<"_">> \o SpacesToUnderscores(params.expCmp.s) ELSE <<>>)
    \o (IF Provided(params.forcount)
          THEN <<"_">> \o SpacesToUnderscores(params.forcount.s) ELSE <<>>)
    \o (IF Provided(params.forname)
          THEN <<"_">> \o SpacesToUnderscores(params.forname.s) ELSE <<>>)
    \o (IF Provided(params.port)
          THEN <<"_">> \o SpacesToUnderscores(params.port.s) ELSE <<>>)

\* l.79-80
WithoutLeadingUnderscore(s) ==
    IF s # <<>> /\ s[1] = "_" THEN Tail(s) ELSE s

\* l.83-89: first_row_hs is None or a row, whose first field is None or a
\* string.
NoRow == [none |-> TRUE, fields |-> <<>>]
Row(fields) == [none |-> FALSE, fields |-> fields]
DefaultName(first_row_hs) ==
    IF ~first_row_hs.none /\ first_row_hs.fields # <<>>
          /\ TruthyStr(first_row_hs.fields[1])
      THEN FirstEight(Strip(first_row_hs.fields[1].s))
      ELSE <<"E", "x", "p", "o", "r", "t">>

\* l.17-93.  The function has no raise of its own: it returns a name
\* whatever strings it is given.
create_filename(params, first_row_hs) ==
    LET month_year == MonthYear(params.fromMonth, params.toMonth)
        filename1 == WithoutLeadingUnderscore(ParameterPart(params))
        filename2 == IF filename1 = <<>> THEN DefaultName(first_row_hs)
                     ELSE filename1
    IN  [kind |-> "return",
         name |-> filename2 \o <<"_">> \o month_year
                    \o <<"E", "X", "P", ".", "x", "l", "s", "x">>]

(***************************************************************************)
(* The calls of create_filename explored.                                  *)
(***************************************************************************)
Years == {<<"1", "9", "2", "3">>, <<"2", "0", "2", "3">>,
          <<"2", "0", "2", "4">>}
Months == {<<"0", "1">>, <<"0", "3">>, <<"1", "2">>}
YearMonths == {y \o m : y \in Years, m \in Months}

\* Five digits, month 13, month 00, a letter, the empty string.
MalformedYearMonths ==
    {<<"2", "0", "2", "3", "1">>, <<"2", "0", "2", "3", "1", "3">>,
     <<"2", "0", "2", "3", "0", "0">>, <<"2", "0", "2", "3", "0", "x">>,
     <<>>}

Digits == {"0", "1", "2", "3", "4", "5", "6", "7", "8", "9"}
IsYearMonth(s) ==
    /\ Len(s) = 6
    /\ \A i \in 1..6 : s[i] \in Digits
    /\ \/ s[5] = "0" /\ s[6] # "0"
       \/ s[5] = "1" /\ s[6] \in {"0", "1", "2"}

UnsetValues == {None, Str(<<>>), Str(<<"%">>)}
FilterFields == {"hs", "prod", "iec", "expCmp", "forcount", "forname", "port"}

\* A value of each filter, with the blanks and the comma the code treats.
SampleValue ==
    [f \in FilterFields |->
        CASE f = "hs" -> Str(<<"\t", " ", " ", "8", "5", " ", "0", "1",
                                ",", "9", "9", "\n">>)
          [] f = "prod" -> Str(<<"a", " ", "b">>)
          [] f = "iec" -> Str(<<"I", "1">>)
          [] f = "expCmp" -> Str(<<"c", " ", "d">>)
          [] f = "forcount" -> Str(<<"U", "S">>)
          [] f = "forname" -> Str(<<"n">>)
          [] OTHER -> Str(<<"p", " ", "q">>)]

SampleRows ==
    {NoRow, Row(<<>>), Row(<<None>>),
     Row(<<Str(<<"2", "9", "0", "2", "1", "1", "0", "0", "A", "B", "C">>)>>),
     Row(<<Str(<<" ", "\n", "2", "9", "\t", "0", "2", "\t", " ",
                 "U+2003", " ">>)>>)}

Params(from, to, filters) ==
    [fromMonth |-> from, toMonth |-> to, hs |-> filters["hs"],
     prod |-> filters["prod"], iec |-> filters["iec"],
     expCmp |-> filters["expCmp"], forcount |-> filters["forcount"],
     forname |-> filters["forname"], port |-> filters["port"]]

Called(params, first_row_hs) ==
    [stage |-> "called", params |-> params, first_row_hs |-> first_row_hs,
     outcome |-> [kind |-> "none", name |-> <<>>]]

\* No export runs while names are composed.
InitNaming ==
    /\ Resume(FreshContext(ThisOperation, 0, NullValue, 1,
                           SourceCheckFrequency))
    /\ cancelled_operations = {}
    /\ other = NoOther
    /\ resources = ResourcesHeld
    /\ cancel_marks = {}
    /\ \/ \E from \in YearMonths \cup MalformedYearMonths,
             to \in YearMonths \cup MalformedYearMonths,
             hs \in {None, SampleValue["hs"]},
             row \in SampleRows :
               naming = Called(Params(from, to,
                                      [f \in FilterFields |->
                                          IF f = "hs" THEN hs ELSE None]),
                               row)
       \/ \E filters \in [FilterFields -> UnsetValues]
                            \cup {[f \in FilterFields |->
                                     IF f \in on THEN SampleValue[f]
                                     ELSE u] :
                                  on \in SUBSET FilterFields,
                                  u \in UnsetValues},
             to \in {<<"2", "0", "2", "3", "0", "1">>,
                     <<"2", "0", "2", "3", "0", "3">>},
             row \in SampleRows :
               naming = Called(Params(<<"2", "0", "2", "3", "0", "1">>, to,
                                      filters),
                               row)

ComposeName ==
    /\ naming.stage = "called"
    /\ naming' = [naming EXCEPT
                    !.stage = "returned",
                    !.outcome = create_filename(naming.params,
                                                naming.first_row_hs)]
    /\ UNCHANGED <<pc, cursor_rows, cursor_pos, batch_size,
                   cancellation_check_frequency, operation_id,
                   cancelled_operations, rows, row_pos, col_idx, row_idx,
                   total_rows, rows_since_last_check, calls, log, result,
                   other, resources, cancel_marks>>

NextNaming == ComposeName

SpecNaming == InitNaming /\ [][NextNaming]_vars

\* The characters of the name between the last "_" and "EXP.xlsx".
ExpSuffix == <<"E", "X", "P", ".", "x", "l", "s", "x">>
LastUnderscore(s) ==
    CHOOSE i \in 1..Len(s) :
        s[i] = "_" /\ \A j \in (i + 1)..Len(s) : s[j] # "_"
LabelOf(name) ==
    SubSeq(name, LastUnderscore(name) + 1, Len(name) - Len(ExpSuffix))
HasHyphen(s) == \E i \in 1..Len(s) : s[i] = "-"

\* The MON+YY label of a year-month, from the design: the three-letter
\* month name and the last two digits of the year.
LabelOfYearMonth(ym) == month_names[SubSeq(ym, 5, 6)] \o SubSeq(ym, 3, 4)

NameReturned == naming.stage = "returned" /\ naming.outcome.kind = "return"
ValidRange ==
    IsYearMonth(naming.params.fromMonth) /\ IsYearMonth(naming.params.toMonth)
JoinedLabel ==
    LabelOfYearMonth(naming.params.fromMonth) \o <<"-">>
        \o LabelOfYearMonth(naming.params.toMonth)

\* C13 as stated: with fromMonth = toMonth the month-range label of the
\* returned name has no "-", and for every two differing year-months the
\* label is the two MON+YY labels joined by "-".
C13_DifferingMonthsAreJoined ==
    (NameReturned /\ ValidRange) =>
        LET label == LabelOf(naming.outcome.name)
        IN  IF naming.params.fromMonth = naming.params.toMonth
              THEN ~HasHyphen(label)
              ELSE label = JoinedLabel

\* C13, amended: the label is the single MON+YY label, without "-", when
\* the two year-months render to the same MON+YY label (in particular when
\* fromMonth = toMonth), and the two labels joined by "-" when the
\* renderings differ.  Two year-months a century apart render alike.
C13_LabelFollowsRenderings ==
    (NameReturned /\ ValidRange) =>
        LET label == LabelOf(naming.outcome.name)
            mon1 == LabelOfYearMonth(naming.params.fromMonth)
            mon2 == LabelOfYearMonth(naming.params.toMonth)
        IN  /\ naming.params.fromMonth = naming.params.toMonth => mon1 = mon2
            /\ IF mon1 = mon2
                 THEN label = mon1 /\ ~HasHyphen(label)
                 ELSE label = JoinedLabel /\ HasHyphen(label)

C13_Witness ==
    /\ NameReturned
    /\ ValidRange
    /\ naming.params.fromMonth # naming.params.toMonth
    /\ LabelOfYearMonth(naming.params.fromMonth)
         = LabelOfYearMonth(naming.params.toMonth)
    /\ ~HasHyphen(LabelOf(naming.outcome.name))

FieldOf(params, f) ==
    CASE f = "hs" -> params.hs
      [] f = "prod" -> params.prod
      [] f = "iec" -> params.iec
      [] f = "expCmp" -> params.expCmp
      [] f = "forcount" -> params.forcount
      [] f = "forname" -> params.forname
      [] OTHER -> params.port
WithField(params, f, v) ==
    CASE f = "hs" -> [params EXCEPT !.hs = v]
      [] f = "prod" -> [params EXCEPT !.prod = v]
      [] f = "iec" -> [params EXCEPT !.iec = v]
      [] f = "expCmp" -> [params EXCEPT !.expCmp = v]
      [] f = "forcount" -> [params EXCEPT !.forcount = v]
      [] f = "forname" -> [params EXCEPT !.forname = v]
      [] OTHER -> [params EXCEPT !.port = v]
AllUnset(params) ==
    \A f \in FilterFields : FieldOf(params, f) \in UnsetValues

\* C14: in a returned name, replacing the value of any filter field that is
\* absent, "" or "%" by another of these three gives the same name, whatever
\* the other fields are; with every field unset and no fallback row the name
\* is Export_{label}EXP.xlsx.
C14_UnsetValuesAreInterchangeable ==
    NameReturned =>
        /\ \A f \in FilterFields :
               FieldOf(naming.params, f) \in UnsetValues =>
                   \A u \in UnsetValues :
                       create_filename(WithField(naming.params, f, u),
                                       naming.first_row_hs)
                         = naming.outcome
        /\ (AllUnset(naming.params) /\ naming.first_row_hs = NoRow) =>
               naming.outcome.name
                 = <<"E", "x", "p", "o", "r", "t", "_">>
                     \o MonthYear(naming.params.fromMonth,
                                  naming.params.toMonth)
                     \o ExpSuffix

C14_Witness ==
    /\ NameReturned
    /\ naming.params.hs = SampleValue["hs"]
    /\ naming.params.prod = Str(<<"%">>)
    /\ naming.params.port = SampleValue["port"]
    /\ naming.outcome.name
         = <<"8", "5", "0", "1", "_", "p", "_", "q", "_">>
             \o MonthYear(naming.params.fromMonth, naming.params.toMonth)
             \o ExpSuffix

InvalidArgument == [kind |-> "raise", name |-> <<>>]

\* C15: a call of create_filename whose fromMonth or toMonth is not a
\* six-digit YYYYMM string with a month in 01..12 ends with InvalidArgument
\* and no filename; no name is returned from a malformed year-month.
C15_MalformedYearMonthIsRejected ==
    (naming.stage = "returned" /\ ~ValidRange) =>
        naming.outcome = InvalidArgument

(***************************************************************************)
(* The check inside the row loop, l.183-191.                               *)
(***************************************************************************)
Streaming == pc \in {"check", "fetch", "row", "cell"}

\* The writer is inside an iteration of "for row in rows", or ended there.
InRow ==
    \/ pc = "cell"
    \/ pc \in {"Cancelled", "Failed"} /\ row_pos \in 1..Len(rows)

\* The rows the loop has counted so far (l.186): the rows written in full
\* and the row the writer is in or ended in; none before row_idx is set.
RowsCounted ==
    IF row_idx < FirstDataRow THEN 0
    ELSE (row_idx - FirstDataRow) + (IF InRow THEN 1 ELSE 0)

\* The queries of the store made inside the row loop: those which are not
\* the check before a fetch.
InBatchGateIndices ==
    {i \in GateIndices :
        IF i < Len(calls) THEN calls[i + 1].op # "fetchmany"
        ELSE InRow}

C16_Counter ==
    /\ pc = "cell" =>
         /\ 0 <= rows_since_last_check
         /\ rows_since_last_check < cancellation_check_frequency
    /\ Streaming =>
         /\ rows_since_last_check = RowsCounted % cancellation_check_frequency
         /\ Cardinality(InBatchGateIndices)
              = RowsCounted \div cancellation_check_frequency

C16_Step ==
    /\ (pc = "row" /\ pc' \in {"cell", "Cancelled"}) =>
         LET counted == rows_since_last_check + 1
             made == SubSeq(calls', Len(calls) + 1, Len(calls'))
             queried == \E i \in 1..Len(made) :
                            made[i].op = "is_operation_cancelled"
         IN  /\ queried <=> counted = cancellation_check_frequency
             /\ queried =>
                  /\ made[1].op = "is_operation_cancelled"
                  /\ IF made[1].arg = "False"
                       THEN rows_since_last_check' = 0 /\ pc' = "cell"
                       ELSE pc' = "Cancelled"
             /\ ~queried => rows_since_last_check' = counted /\ pc' = "cell"
             /\ \A i \in 1..Len(calls') :
                    calls'[i].op = "write" /\ calls'[i].arg # "header_format"
                        => calls'[i].a # row_idx
    /\ (pc = "check" \/ (pc = "row" /\ pc' = "check")) =>
         UNCHANGED rows_since_last_check

\* C16: at every cell write the count of rows since the last check is at
\* least 0 and below the stride; in the row loop the store is queried
\* exactly when the incremented count reaches the stride, before the cells
\* of that row are written, and the count returns to zero after a negative
\* answer; neither the end of a batch nor the check before a fetch resets
\* the count, so the in-batch queries come every stride rows of the whole
\* export, whatever the batch size.
C16_InBatchCheckEveryStrideRows == []C16_Counter /\ [][C16_Step]_vars

\* The count was carried over a batch boundary: batches of one row, a
\* stride of two, and the query made at the head of the second row.
C16_Witness ==
    /\ pc = "cell"
    /\ batch_size = 1
    /\ cancellation_check_frequency = 2
    /\ row_idx = 2
    /\ rows_since_last_check = 0
    /\ calls[Len(calls)].op = "is_operation_cancelled"
    /\ Cardinality(FetchIndices) = 2

(***************************************************************************)
(* The response to a cancellation request.  The request is recorded with   *)
(* the length of the call log, the position of the writer and the number   *)
(* of rows the loop had not yet counted when it was made.                  *)
(***************************************************************************)
RowsNotCounted == Len(cursor_rows) - RowsCounted

RequestCancelMarked(op) ==
    /\ op \notin cancelled_operations
    /\ cancelled_operations' = cancelled_operations \cup {op}
    /\ cancel_marks' = cancel_marks \cup
                         {[op |-> op, at |-> Len(calls), pc |-> pc,
                           remaining |-> RowsNotCounted]}
    /\ UNCHANGED <<pc, cursor_rows, cursor_pos, batch_size,
                   cancellation_check_frequency, operation_id, rows, row_pos,
                   col_idx, row_idx, total_rows, rows_since_last_check,
                   calls, log, result, other, resources, naming>>

\* The writer when neither the cursor nor the sink fails.
WriterWithoutFailure ==
    \/ write_excel_headers
    \/ StartWriteData
    \/ PreFetchCheck
    \/ FetchBatch
    \/ RowHead
    \/ WriteCell
    \/ EndBatch

NextC17 ==
    \/ WriterWithoutFailure
    \/ \E op \in OperationIds : RequestCancelMarked(op)

\* The writer is a running thread: it takes its next step.
SpecC17 == InitPlain /\ [][NextC17]_vars /\ WF_vars(WriterWithoutFailure)

\* The requests made for the running operation before it ended.
OwnMarks ==
    {mk \in cancel_marks :
        mk.op = operation_id /\ mk.pc \notin TerminalPositions}
RowsTouchedAfter(mk) ==
    {calls[i].a : i \in {j \in DataWriteIndices : j > mk.at}}
FetchesAfter(mk) == {i \in FetchIndices : i > mk.at}

C17_Bounds ==
    \A mk \in OwnMarks :
        /\ Cardinality(RowsTouchedAfter(mk)) <= cancellation_check_frequency
        /\ Cardinality(FetchesAfter(mk)) <= 1
        /\ (pc = "Completed" => mk.remaining = 0)

C17_RequestedWithRowsLeft == \E mk \in OwnMarks : mk.remaining > 0

    /\ DataRowsWritten < Len(cursor_rows)

(***************************************************************************)
(* The placement of the rows, l.164-206.                                   *)
(***************************************************************************)
BatchBoundary == pc \in {"check", "fetch", "Completed"}

\* The placement is followed on cursors whose rows differ in their first
\* column only.
SpecPlain == InitPlain /\ [][Next]_vars

\* C18: the k-th row of the cursor goes to sheet row k and nowhere else:
\* every data cell written holds the value of the same row and column of
\* the cursor, no cell is written twice, the writes follow the cursor's
\* order with no sheet row skipped, the row position is one more than the
\* number of rows written, and at every batch boundary row_idx - 1 equals
\* total_rows.
C18_RowKGoesToSheetRowK ==
    /\ \A i \in DataWriteIndices :
          /\ calls[i].a \in 1..Len(cursor_rows)
          /\ calls[i].b \in 0..(NumCols - 1)
          /\ calls[i].value = cursor_rows[calls[i].a][calls[i].b + 1]
    /\ \A i, j \in DataWriteIndices :
          /\ i < j => calls[i].a <= calls[j].a
          /\ (i # j) => (calls[i].a # calls[j].a \/ calls[i].b # calls[j].b)
    /\ \A r \in 1..Len(cursor_rows) :
          (\E c \in 0..(NumCols - 1) : CellWritten(r, c)) =>
              \A q \in 1..(r - 1) : q \in CompleteDataRows
    /\ (Streaming \/ (pc \in TerminalPositions /\ row_idx >= FirstDataRow)) =>
          row_idx = FirstDataRow + DataRowsWritten
    /\ BatchBoundary => row_idx - 1 = total_rows

\* Three rows in batches of two, all written: the third row crossed a
\* batch boundary.
C18_Witness ==
    /\ pc = "Completed"
    /\ batch_size = 2
    /\ Len(cursor_rows) = 3
    /\ CompleteDataRows = {1, 2, 3}
    /\ Cardinality(FetchIndices) = 3

(***************************************************************************)
(* Failures of the cursor and of the sink, l.178, l.200, l.202: there is   *)
(* no try around either call and no loop that would call again.            *)
(***************************************************************************)
C19_FailureIsLast ==
    \A i \in RaisedIndices :
        /\ i = Len(calls)
        /\ pc = "Failed"
        /\ result = (IF calls[i].op = "fetchmany" THEN CursorFailure
                     ELSE SinkFailure)
        /\ CompleteDataRows = 1..(row_idx - FirstDataRow)

C19_FailedStep ==
    pc = "Failed" => UNCHANGED <<pc, calls, result, cursor_pos, row_idx>>

\* C19: a failed fetch or a failed cell write is the writer's last call: no
\* fetch and no cell write follows it, the writer is in Failed with the
\* collaborator's error, and the sheet keeps rows 1..n written before the
\* failure, none of them written again.
C19_NoRetryAfterFailure == []C19_FailureIsLast /\ [][C19_FailedStep]_vars

\* The sink failed in the second row, after the first row was written and
\* the cancellation was requested: nothing else was called.
C19_Witness ==
    /\ pc = "Failed"
    /\ calls[Len(calls)].op = "write_raised"
    /\ calls[Len(calls)].a = 2
    /\ CompleteDataRows = {1}
    /\ operation_id \in cancelled_operations

(***************************************************************************)
(* Termination.  The writer is a thread that keeps running: weak fairness  *)
(* of its steps.  The concurrent actor is under no obligation.             *)
(***************************************************************************)
SpecC20 == InitPlain /\ [][Next]_vars /\ WF_vars(Writer)

\* ceil(n / size)
CeilDiv(n, size) == (n + size - 1) \div size

C20_Outcome ==
    /\ (pc \in TerminalPositions /\ operation_id \notin cancelled_operations
          /\ RaisedIndices = {}) => pc = "Completed"
    /\ pc = "Completed" =>
          /\ Cardinality(FetchIndices)
               = CeilDiv(Len(cursor_rows), batch_size) + 1
          /\ calls[Len(calls)] = FetchCall(batch_size, 0)
          /\ \A i \in FetchIndices : i < Len(calls) => calls[i].b > 0
    /\ pc = "Cancelled" => ObservedCancel
    /\ pc = "Failed" => RaisedIndices # {}

C20_TerminalStep == pc \in TerminalPositions => pc' = pc

\* C20: for every finite cursor and batch size >= 1, with the writer
\* scheduled fairly and whatever is done to the cancellation flag, the
\* writer eventually is in one of Completed, Cancelled, Failed and stays in
\* it; when the flag was not set and no call failed the outcome is
\* Completed, reached after exactly ceil(rows / batch_size) + 1 fetches of
\* which only the last returned the empty batch.
C20_Termination ==
    /\ <>(pc \in TerminalPositions)
    /\ []C20_Outcome
    /\ [][C20_TerminalStep]_vars

\* Three rows in batches of one: four fetches, the last one empty.
C20_Witness ==
    /\ pc = "Completed"
    /\ batch_size = 1
    /\ Len(cursor_rows) = 3
    /\ Cardinality(FetchIndices) = 4
    /\ calls[Len(calls)] = FetchCall(1, 0)
    /\ result = Returned(3)
=============================================================================
